---- MODULE Spec2Model ----
(***************************************************************************)
(* Model of the currency converter of src/main.py (class ConversorApp):    *)
(* the quote resolver _obter_cotacao, the handler converter_moeda, and the *)
(* persistence of the selected pair (carregar_config / closeEvent).        *)
(*                                                                         *)
(* Texts (the amount field, a bid, the result label) are sequences of      *)
(* one-character strings, so that str.replace, float() and the format      *)
(* specification ",.2f" are computed character by character.  A float is   *)
(* a record [k, n, d]: k = "fin" is the rational n/d in lowest terms       *)
(* (d > 0), k = "inf" is an infinity of sign n, k = "nan" is NaN.  The     *)
(* rounding error of binary floating point is not modelled: arithmetic on  *)
(* finite values is exact.                                                 *)
(***************************************************************************)
EXTENDS Integers, Sequences, FiniteSets, TLC

(***************************************************************************)
(* Floats                                                                  *)
(***************************************************************************)
Abs(x) == IF x < 0 THEN 0 - x ELSE x

RECURSIVE GCD(_, _)
GCD(a, b) == IF b = 0 THEN a ELSE GCD(b, a % b)

NaN == [k |-> "nan", n |-> 0, d |-> 0]

Inf(s) == [k |-> "inf", n |-> s, d |-> 0]

\* the float n/d (d > 0), in lowest terms
Fin(n, d) ==
    LET g == GCD(Abs(n), d)
    IN  [k |-> "fin", n |-> n \div g, d |-> d \div g]

Sinal(v) == IF v.n < 0 THEN 0 - 1 ELSE IF v.n > 0 THEN 1 ELSE 0

\* valor <= 0 (every comparison with NaN is False)
MenorOuIgualZero(v) == v.k # "nan" /\ v.n <= 0

\* valor * cotacao
Mul(a, b) ==
    IF a.k = "nan" \/ b.k = "nan" THEN NaN
    ELSE IF a.k = "inf" \/ b.k = "inf"
         THEN IF Sinal(a) * Sinal(b) = 0 THEN NaN ELSE Inf(Sinal(a) * Sinal(b))
         ELSE Fin(a.n * b.n, a.d * b.d)

\* 1 / x for x # 0 (1 / 0.0 raises ZeroDivisionError before this is used)
Recip(v) ==
    IF v.k = "nan" THEN NaN
    ELSE IF v.k = "inf" THEN Fin(0, 1)
    ELSE Fin(Sinal(v) * v.d, Abs(v.n))

EhZero(v) == v.k = "fin" /\ v.n = 0

(***************************************************************************)
(* Texts                                                                   *)
(***************************************************************************)
Digitos == <<"0", "1", "2", "3", "4", "5", "6", "7", "8", "9">>

EhDigito(c) == \E i \in 1..10 : Digitos[i] = c

ValorDigito(c) == (CHOOSE i \in 1..10 : Digitos[i] = c) - 1

\* str.replace(old, new) for one-character old and new
Replace(s, old, new) == [i \in 1..Len(s) |-> IF s[i] = old THEN new ELSE s[i]]

RECURSIVE Strip(_)
Strip(s) ==
    IF s = <<>> THEN s
    ELSE IF Head(s) = " " THEN Strip(Tail(s))
    ELSE IF s[Len(s)] = " " THEN Strip(SubSeq(s, 1, Len(s) - 1))
    ELSE s

TodosDigitos(s) == \A i \in 1..Len(s) : EhDigito(s[i])

RECURSIVE ValorInteiro(_)
ValorInteiro(s) ==
    IF s = <<>> THEN 0
    ELSE 10 * ValorInteiro(SubSeq(s, 1, Len(s) - 1)) + ValorDigito(s[Len(s)])

RECURSIVE Pot10(_)
Pot10(e) == IF e = 0 THEN 1 ELSE 10 * Pot10(e - 1)

PosPonto(s) == IF \E i \in 1..Len(s) : s[i] = "."
               THEN CHOOSE i \in 1..Len(s) : s[i] = "." /\ \A j \in 1..(i - 1) : s[j] # "."
               ELSE 0

DecimalDe(int, frac) ==
    IF TodosDigitos(int) /\ TodosDigitos(frac) /\ Len(int) + Len(frac) > 0
    THEN [ok |-> TRUE, v |-> Fin(ValorInteiro(int \o frac), Pot10(Len(frac)))]
    ELSE [ok |-> FALSE, v |-> NaN]

DecimalEm(s, p) ==
    DecimalDe(IF p = 0 THEN s ELSE SubSeq(s, 1, p - 1),
              IF p = 0 THEN <<>> ELSE SubSeq(s, p + 1, Len(s)))

\* the unsigned decimal literals float() accepts: digits, digits.digits, digits., .digits
Decimal(s) == DecimalEm(s, PosPonto(s))

\* float() of a stripped text: an optional sign, then nan, inf or a decimal
ParseSinal(neg, body, dec) ==
    IF body = <<"n", "a", "n">> THEN [ok |-> TRUE, v |-> NaN]
    ELSE IF body = <<"i", "n", "f">> THEN [ok |-> TRUE, v |-> Inf(IF neg THEN 0 - 1 ELSE 1)]
    ELSE IF dec.ok
         THEN [ok |-> TRUE, v |-> IF neg THEN Fin(0 - dec.v.n, dec.v.d) ELSE dec.v]
         ELSE [ok |-> FALSE, v |-> NaN]

ParseAparado(s, body) == ParseSinal(s # <<>> /\ Head(s) = "-", body, Decimal(body))

TiraSinal(s) == IF s # <<>> /\ Head(s) \in {"-", "+"} THEN Tail(s) ELSE s

\* float(text): [ok |-> FALSE] is the ValueError of an unparsable text
ParseFloat(text) == ParseAparado(Strip(text), TiraSinal(Strip(text)))

RECURSIVE DigitosDe(_)
DigitosDe(x) == IF x < 10 THEN <<Digitos[x + 1]>>
                ELSE DigitosDe(x \div 10) \o <<Digitos[(x % 10) + 1]>>

\* the digits of an integer part with "," between groups of three
RECURSIVE Agrupa(_)
Agrupa(s) == IF Len(s) <= 3 THEN s
             ELSE Agrupa(SubSeq(s, 1, Len(s) - 3)) \o <<",">> \o SubSeq(s, Len(s) - 2, Len(s))

Arredonda(q, r2, d) == IF r2 > d \/ (r2 = d /\ q % 2 = 1) THEN q + 1 ELSE q

\* |n/d| in hundredths, rounded to nearest, ties to even
Centavos(v) == Arredonda((Abs(v.n) * 100) \div v.d, 2 * ((Abs(v.n) * 100) % v.d), v.d)

\* sign, grouped integer part, point and two digits of c hundredths
FormatCentavos(negativo, c) ==
    (IF negativo THEN <<"-">> ELSE <<>>)
    \o Agrupa(DigitosDe(c \div 100))
    \o <<".", Digitos[((c % 100) \div 10) + 1], Digitos[(c % 10) + 1]>>

\* f"{resultado:,.2f}"
FormatMilhar2f(v) ==
    IF v.k = "nan" THEN <<"n", "a", "n">>
    ELSE IF v.k = "inf"
         THEN (IF v.n < 0 THEN <<"-">> ELSE <<>>) \o <<"i", "n", "f">>
         ELSE FormatCentavos(v.n < 0, Centavos(v))

\* .replace(",", "_").replace(".", ",").replace("_", ".")
InverteSeparadores(s) == Replace(Replace(Replace(s, ",", "_"), ".", ","), "_", ".")

(***************************************************************************)
(* The quotation service, as seen through requests.get                     *)
(***************************************************************************)
moedas == <<"USD", "BRL", "EUR", "JPY", "ARS", "CAD", "AUD", "GBP", "CHF">>

API_URL_TEMPLATE(origem, destino) ==
    "https://economia.awesomeapi.com.br/json/last/" \o origem \o "-" \o destino

Txt5 == <<"5", ".", "0", "0">>
Txt02 == <<"0", ".", "2", "0">>
TxtZero == <<"0">>
TxtLixo == <<"x">>
TxtInf == <<"i", "n", "f">>

\* the bid texts the service may send
BidTextos == {Txt5, Txt02, TxtZero, TxtLixo, TxtInf}

DataApi == "2024-01-01 12:00:00"

SemEntrada == [t |-> "nenhuma", temBid |-> FALSE, bid |-> <<>>, temData |-> FALSE]

\* the value stored under a pair key: an object with optional "bid" and
\* "create_date" fields, or a value that is no object (a string)
Entradas ==
    {[t |-> "str", temBid |-> FALSE, bid |-> <<>>, temData |-> FALSE]}
    \cup {[t |-> "obj", temBid |-> FALSE, bid |-> <<>>, temData |-> TRUE]}
    \cup {[t |-> "obj", temBid |-> TRUE, bid |-> b, temData |-> TRUE] : b \in BidTextos}
    \cup {[t |-> "obj", temBid |-> TRUE, bid |-> Txt5, temData |-> FALSE]}

EntradaBoa == [t |-> "obj", temBid |-> TRUE, bid |-> Txt5, temData |-> TRUE]

\* a body: not JSON, a JSON number, a JSON list, or a JSON object holding at
\* most one pair key: the key asked for, with any entry, or the other key
Corpos(chave, outra) ==
    {[t |-> x, chave |-> "", entrada |-> SemEntrada] : x \in {"nao_json", "numero", "lista", "objeto"}}
    \cup {[t |-> "objeto", chave |-> chave, entrada |-> e] : e \in Entradas}
    \cup {[t |-> "objeto", chave |-> outra, entrada |-> EntradaBoa]}

\* what the GET for the pair origem-destino can end in: no response (a
\* connection error or a timeout, both RequestException), or a response with
\* a status and a body
Respostas(origem, destino) ==
    {[tipo |-> x, status |-> 0,
      corpo |-> [t |-> "nao_json", chave |-> "", entrada |-> SemEntrada]]
        : x \in {"ConnectionError", "Timeout"}}
    \cup {[tipo |-> "http", status |-> 200, corpo |-> c]
             : c \in Corpos(origem \o destino, destino \o origem)}
    \cup {[tipo |-> "http", status |-> 404,
           corpo |-> [t |-> "objeto", chave |-> "", entrada |-> SemEntrada]]}

(***************************************************************************)
(* _obter_cotacao                                                          *)
(***************************************************************************)
Excecao(e) == [fim |-> "excecao", exc |-> e, cotacao |-> NaN, data |-> ""]

\* Extrai with the attempts confused: the direct bid is reciprocated
ExtraiTrocado(e, f, inverso) ==
    IF e.t # "obj" THEN Excecao("TypeError")
    ELSE IF ~e.temBid THEN Excecao("KeyError")
    ELSE IF ~f.ok THEN Excecao("ValueError")
    ELSE IF ~inverso /\ EhZero(f.v) THEN Excecao("ZeroDivisionError")
    ELSE IF ~e.temData THEN Excecao("KeyError")
    ELSE [fim |-> "retorno", exc |-> "nenhuma",
          cotacao |-> IF ~inverso THEN Recip(f.v) ELSE f.v, data |-> DataApi]

\* the entry under the key: float(dados_moeda["bid"]), reciprocated on the
\* inverse attempt, then dados_moeda["create_date"]
Extrai(e, f, inverso) ==
    IF e.t # "obj" THEN Excecao("TypeError")
    ELSE IF ~e.temBid THEN Excecao("KeyError")
    ELSE IF ~f.ok THEN Excecao("ValueError")
    ELSE IF inverso /\ EhZero(f.v) THEN Excecao("ZeroDivisionError")
    ELSE IF ~e.temData THEN Excecao("KeyError")
    ELSE [fim |-> "retorno", exc |-> "nenhuma",
          cotacao |-> IF inverso THEN Recip(f.v) ELSE f.v, data |-> DataApi]

\* one try body: get, raise_for_status, json, the key test and the entry
Tentativa(resp, chave, inverso) ==
    IF resp.tipo # "http" THEN Excecao(resp.tipo)
    ELSE IF resp.status >= 400 THEN Excecao("HTTPError")
    ELSE IF resp.corpo.t = "nao_json" THEN Excecao("JSONDecodeError")
    ELSE IF resp.corpo.t = "numero" THEN Excecao("TypeError")
    ELSE IF resp.corpo.t = "lista" \/ resp.corpo.chave # chave
         THEN [fim |-> "sem_chave", exc |-> "nenhuma", cotacao |-> NaN, data |-> ""]
    ELSE Extrai(resp.corpo.entrada, ParseFloat(resp.corpo.entrada.bid), inverso)

NaoEncontrado(pedidos) ==
    [fim |-> "excecao", exc |-> "ValueError", cotacao |-> NaN, data |-> "",
     par |-> "", pedidos |-> pedidos]

Retorno(t, par, pedidos) ==
    [fim |-> "retorno", exc |-> "nenhuma", cotacao |-> t.cotacao, data |-> t.data,
     par |-> par, pedidos |-> pedidos]

\* Resolve with the inner "except Exception: pass" replaced by a re-raise
ResolvePropaga(direta, inversa, par_direto_chave, url_direta, par_inverso_chave, url_inversa) ==
    IF direta.fim = "retorno" THEN Retorno(direta, par_direto_chave, <<url_direta>>)
    ELSE IF direta.fim = "sem_chave" THEN NaoEncontrado(<<url_direta>>)
    ELSE IF inversa.fim = "retorno"
         THEN Retorno(inversa, par_inverso_chave, <<url_direta, url_inversa>>)
    ELSE IF inversa.fim = "excecao"
         THEN [NaoEncontrado(<<url_direta, url_inversa>>) EXCEPT !.exc = inversa.exc]
         ELSE NaoEncontrado(<<url_direta, url_inversa>>)

\* the two try blocks and the final raise, given what each attempt ends in
Resolve(direta, inversa, par_direto_chave, url_direta, par_inverso_chave, url_inversa) ==
    IF direta.fim = "retorno" THEN Retorno(direta, par_direto_chave, <<url_direta>>)
    ELSE IF direta.fim = "sem_chave" THEN NaoEncontrado(<<url_direta>>)
    ELSE IF inversa.fim = "retorno"
         THEN Retorno(inversa, par_inverso_chave, <<url_direta, url_inversa>>)
         ELSE NaoEncontrado(<<url_direta, url_inversa>>)

\* r1 answers the direct request and r2 the inverse request, if it is made
ObterCotacao(origem, destino, r1, r2) ==
    Resolve(Tentativa(r1, origem \o destino, FALSE),
            Tentativa(r2, destino \o origem, TRUE),
            origem \o destino, API_URL_TEMPLATE(origem, destino),
            destino \o origem, API_URL_TEMPLATE(destino, origem))

(***************************************************************************)
(* converter_moeda                                                         *)
(***************************************************************************)
\* the widgets' texts after _setup_ui
ResultadoInicial == <<"0", ",", "0", "0">>

RodapeInicial == [fonte |-> "AwesomeAPI", par |-> "", data |-> "-"]

Rodape(par_usado, data_cotacao_str) ==
    [fonte |-> "AwesomeAPI", par |-> par_usado, data |-> data_cotacao_str]

Aviso(msg) == [nivel |-> "warning", titulo |-> "Aviso", msg |-> msg]

Critico(titulo) == [nivel |-> "critical", titulo |-> titulo, msg |-> "Detalhe"]

\* isinstance(exc, classe) for the classes the except clauses name
EhInstancia(exc, classe) ==
    \/ classe = "Exception"
    \/ classe = "ValueError" /\ exc \in {"ValueError", "JSONDecodeError"}
    \/ classe = "RequestException"
        /\ exc \in {"ConnectionError", "Timeout", "HTTPError", "JSONDecodeError"}

\* Trata with only the "except RequestException" clause
TrataSoConexao(exc) ==
    IF EhInstancia(exc, "RequestException")
    THEN [dialogos |-> <<Critico("Erro de Conexao")>>, escapou |-> "nenhuma"]
    ELSE [dialogos |-> <<>>, escapou |-> exc]

\* the except clauses of converter_moeda, in order
Trata(exc) ==
    IF EhInstancia(exc, "ValueError")
    THEN [dialogos |-> <<Critico("Erro de API")>>, escapou |-> "nenhuma"]
    ELSE IF EhInstancia(exc, "RequestException")
    THEN [dialogos |-> <<Critico("Erro de Conexao")>>, escapou |-> "nenhuma"]
    ELSE IF EhInstancia(exc, "Exception")
    THEN [dialogos |-> <<Critico("Erro Desconhecido")>>, escapou |-> "nenhuma"]
    ELSE [dialogos |-> <<>>, escapou |-> exc]

\* ValidaValor with the amount checked before the pair
ValidaValorAntes(moeda_origem, moeda_destino, valor_texto, f) ==
    IF valor_texto = <<>>
    THEN [fim |-> "aviso", msg |-> "insira um valor", valor |-> NaN]
    ELSE IF ~f.ok
    THEN [fim |-> "excecao", msg |-> "ValueError", valor |-> NaN]
    ELSE IF MenorOuIgualZero(f.v)
    THEN [fim |-> "aviso", msg |-> "maior que zero", valor |-> f.v]
    ELSE IF moeda_origem = moeda_destino
    THEN [fim |-> "aviso", msg |-> "moedas iguais", valor |-> NaN]
    ELSE [fim |-> "segue", msg |-> "", valor |-> f.v]

\* the checks made before any request: [fim |-> "segue"] lets the amount through
ValidaValor(moeda_origem, moeda_destino, valor_texto, f) ==
    IF moeda_origem = moeda_destino
    THEN [fim |-> "aviso", msg |-> "moedas iguais", valor |-> NaN]
    ELSE IF valor_texto = <<>>
    THEN [fim |-> "aviso", msg |-> "insira um valor", valor |-> NaN]
    ELSE IF ~f.ok
    THEN [fim |-> "excecao", msg |-> "ValueError", valor |-> NaN]
    ELSE IF MenorOuIgualZero(f.v)
    THEN [fim |-> "aviso", msg |-> "maior que zero", valor |-> f.v]
    ELSE [fim |-> "segue", msg |-> "", valor |-> f.v]

Valida(moeda_origem, moeda_destino, valor_texto) ==
    ValidaValor(moeda_origem, moeda_destino, valor_texto, ParseFloat(valor_texto))

\* SemEfeito with the labels put back to their initial texts
SemEfeitoLimpa(lblRes, lblData, t, pedidos) ==
    [lbl_resultado |-> <<"0", ",", "0", "0">>,
     lbl_data_cotacao |-> [fonte |-> "AwesomeAPI", par |-> "", data |-> "-"],
     exibiu |-> FALSE, dialogos |-> t.dialogos, escapou |-> t.escapou,
     pedidos |-> pedidos, cotacao |-> NaN]

\* a conversion that ends in a dialog: the labels stay as they are
SemEfeito(lblRes, lblData, t, pedidos) ==
    [lbl_resultado |-> lblRes, lbl_data_cotacao |-> lblData, exibiu |-> FALSE,
     dialogos |-> t.dialogos, escapou |-> t.escapou, pedidos |-> pedidos,
     cotacao |-> NaN]

\* steps 3 and 4: the product, its text and the two labels
Exibe(valor, q) ==
    [lbl_resultado |-> InverteSeparadores(FormatMilhar2f(Mul(valor, q.cotacao))),
     lbl_data_cotacao |-> Rodape(q.par, q.data), exibiu |-> TRUE,
     dialogos |-> <<>>, escapou |-> "nenhuma", pedidos |-> q.pedidos,
     cotacao |-> q.cotacao]

\* the handler, given what the validation and the resolver end in
Conclui(lblRes, lblData, v, q) ==
    IF v.fim = "aviso"
    THEN SemEfeito(lblRes, lblData, [dialogos |-> <<Aviso(v.msg)>>, escapou |-> "nenhuma"], <<>>)
    ELSE IF v.fim = "excecao"
    THEN SemEfeito(lblRes, lblData, Trata(v.msg), <<>>)
    ELSE IF q.fim = "excecao"
    THEN SemEfeito(lblRes, lblData, Trata(q.exc), q.pedidos)
    ELSE Exibe(v.valor, q)

\* the whole handler, from the widgets' state and the service's answers to
\* the labels, the dialogs shown and the requests made
ConverterMoeda(moeda_origem, moeda_destino, texto, lblRes, lblData, r1, r2) ==
    Conclui(lblRes, lblData,
            Valida(moeda_origem, moeda_destino, Replace(texto, ",", ".")),
            ObterCotacao(moeda_origem, moeda_destino, r1, r2))

(***************************************************************************)
(* config.json: carregar_config and closeEvent                             *)
(***************************************************************************)
\* JSON text as a sequence of tokens
P(c) == [t |-> "p", s |-> c]

S(x) == [t |-> "str", s |-> x]

Num(x) == [t |-> "num", s |-> x]

Nulo == [t |-> "null", s |-> "null"]

Ausente == [existe |-> FALSE, tokens |-> <<>>]

Arquivo(toks) == [existe |-> TRUE, tokens |-> toks]

\* JsonDump with the two values under each other's key
JsonDumpTrocado(config_atual) ==
    <<P("{"), S("origem"), P(":"), S(config_atual.destino), P(","),
      S("destino"), P(":"), S(config_atual.origem), P("}")>>

\* json.dump of {"origem": ..., "destino": ...}
JsonDump(config_atual) ==
    <<P("{"), S("origem"), P(":"), S(config_atual.origem), P(","),
      S("destino"), P(":"), S(config_atual.destino), P("}")>>

EhValorJson(tok) == tok.t \in {"str", "num", "null"}

\* the members "key": value, ... of an object, between its braces
MembrosOk(m) ==
    /\ Len(m) % 4 = 3
    /\ \A i \in 1..Len(m) :
          CASE i % 4 = 1 -> m[i].t = "str"
            [] i % 4 = 2 -> m[i] = P(":")
            [] i % 4 = 3 -> EhValorJson(m[i])
            [] OTHER     -> m[i] = P(",")

\* json.load: [ok |-> FALSE] is the JSONDecodeError; of an object, its
\* members as a sequence of <<key, value>>
JsonLoad(toks) ==
    LET m == SubSeq(toks, 2, Len(toks) - 1)
    IN  IF Len(toks) = 1 /\ EhValorJson(toks[1])
        THEN [ok |-> TRUE, t |-> "escalar", membros |-> <<>>]
        ELSE IF toks = <<P("["), P("]")>>
        THEN [ok |-> TRUE, t |-> "lista", membros |-> <<>>]
        ELSE IF Len(toks) >= 2 /\ toks[1] = P("{") /\ toks[Len(toks)] = P("}")
                /\ (m = <<>> \/ MembrosOk(m))
        THEN [ok |-> TRUE, t |-> "objeto",
              membros |-> [i \in 1..((Len(m) + 1) \div 4) |-> <<m[4 * i - 3].s, m[4 * i - 1]>>]]
        ELSE [ok |-> FALSE, t |-> "", membros |-> <<>>]

\* config.get(chave): the last member of that name, or None
Get(config, chave) ==
    LET is == {i \in 1..Len(config.membros) : config.membros[i][1] = chave}
    IN  IF is = {} THEN Nulo
        ELSE config.membros[CHOOSE i \in is : \A j \in is : j <= i][2]

\* bool(x) of a JSON value
Verdadeiro(tok) ==
    \/ tok.t = "str" /\ tok.s # ""
    \/ tok.t = "num" /\ tok.s # "0"

\* QComboBox.findText: the 0-based index of the item, or -1
FindText(texto) ==
    IF \E i \in 1..Len(moedas) : moedas[i] = texto
    THEN (CHOOSE i \in 1..Len(moedas) : moedas[i] = texto) - 1
    ELSE 0 - 1

CurrentText(indice) == moedas[indice + 1]

\* one "if origem: ..." block: the index after it, and whether findText
\* raised on an argument that is no string
Aplica(tok, indice) ==
    IF ~Verdadeiro(tok) THEN [indice |-> indice, exc |-> "nenhuma"]
    ELSE IF tok.t # "str" THEN [indice |-> indice, exc |-> "TypeError"]
    ELSE IF FindText(tok.s) >= 0 THEN [indice |-> FindText(tok.s), exc |-> "nenhuma"]
    ELSE [indice |-> indice, exc |-> "nenhuma"]

\* carregar_config on freshly built combo boxes, whose index is 0
CarregarConfig(arquivo, idxOrigem, idxDestino) ==
    LET config == JsonLoad(arquivo.tokens)
        o == Aplica(Get(config, "origem"), idxOrigem)
        d == Aplica(Get(config, "destino"), idxDestino)
    IN  IF ~arquivo.existe
        THEN [combo_origem |-> idxOrigem, combo_destino |-> idxDestino, log |-> "warning"]
        ELSE IF ~config.ok \/ config.t # "objeto"
        THEN [combo_origem |-> idxOrigem, combo_destino |-> idxDestino, log |-> "error"]
        ELSE IF o.exc # "nenhuma"
        THEN [combo_origem |-> idxOrigem, combo_destino |-> idxDestino, log |-> "error"]
        ELSE IF d.exc # "nenhuma"
        THEN [combo_origem |-> o.indice, combo_destino |-> idxDestino, log |-> "error"]
        ELSE [combo_origem |-> o.indice, combo_destino |-> d.indice, log |-> "info"]

\* the file after closeEvent: written whole, left alone when open() fails,
\* or cut short when the write fails after open() truncated it
CloseEvent(arquivo, idxOrigem, idxDestino, escrita) ==
    LET config_atual == [origem |-> CurrentText(idxOrigem), destino |-> CurrentText(idxDestino)]
        texto == JsonDump(config_atual)
    IN  IF escrita = "ok" THEN Arquivo(texto)
        ELSE IF escrita = "open falha" THEN arquivo
        ELSE IF escrita = "vazio" THEN Arquivo(<<>>)
        ELSE Arquivo(SubSeq(texto, 1, 5))

(***************************************************************************)
(* The application as a state machine                                      *)
(***************************************************************************)
\* the user picks among the first NumMoedas items of the combo boxes
NumMoedas == 2

Indices == 0..(NumMoedas - 1)

Txt(a, b, c) == <<a, b, c>>

\* the texts the user may leave in the amount field
ValoresDigitados ==
    {<<>>, Txt("a", "b", "c"), <<"0">>, <<"-", "5">>, Txt("1", "0", "0"),
     <<"1", "2", "3", "4", "5", "6", "7", ",", "5">>, Txt("n", "a", "n"), Txt("i", "n", "f")}

SemCampo == [t |-> "none", s |-> ""]

Membro(chave, tok) == IF tok = SemCampo THEN <<>> ELSE <<S(chave), P(":"), tok>>

\* the text of an object with the given "origem" and "destino" members
Objeto(o, d) ==
    <<P("{")>> \o Membro("origem", o)
    \o (IF o # SemCampo /\ d # SemCampo THEN <<P(",")>> ELSE <<>>)
    \o Membro("destino", d) \o <<P("}")>>

CamposExternos == {SemCampo, S("XYZ"), Num("5"), S(moedas[NumMoedas])}

\* what another program, or the user, may leave in config.json between runs
ArquivosExternos ==
    {Ausente, Arquivo(<<>>), Arquivo(<<P("["), P("]")>>), Arquivo(<<Num("5")>>),
     Arquivo(Objeto(S(""), S(moedas[NumMoedas])))}
    \cup {Arquivo(Objeto(o, d)) : o \in CamposExternos, d \in CamposExternos}

Escritas == {"ok", "open falha", "vazio", "parcial"}

VARIABLES
    fase,              \* "aberta": the window exists; "fechada": the process has ended
    combo_origem,      \* currentIndex of the origin combo box
    combo_destino,     \* currentIndex of the destination combo box
    input_valor,       \* text of the amount field
    lbl_resultado,     \* text of the result label
    lbl_data_cotacao,  \* content of the footer label
    config_file,       \* config.json on disk
    ultima,            \* what the last operation read, showed and requested
    chamada            \* the last direct call of _obter_cotacao, with its answers

vars == <<fase, combo_origem, combo_destino, input_valor, lbl_resultado,
          lbl_data_cotacao, config_file, ultima, chamada>>

widgets == <<combo_origem, combo_destino, input_valor, lbl_resultado, lbl_data_cotacao>>

SemChamada == [feita |-> FALSE]

\* the state after _setup_ui
Widgets0 ==
    /\ combo_origem = 0
    /\ combo_destino = 0
    /\ input_valor = <<>>
    /\ lbl_resultado = ResultadoInicial
    /\ lbl_data_cotacao = RodapeInicial

\* __init__ with no config.json: carregar_config returns at once
Init ==
    /\ fase = "aberta"
    /\ Widgets0
    /\ config_file = Ausente
    /\ ultima = [op |-> "__init__", log |-> "warning", fechamento |-> [gravou |-> FALSE]]
    /\ chamada = SemChamada

Entrada == [op |-> "entrada"]

SelecionarOrigem(i) ==
    /\ fase = "aberta"
    /\ combo_origem' = i
    /\ ultima' = Entrada
    /\ UNCHANGED <<fase, combo_destino, input_valor, lbl_resultado, lbl_data_cotacao,
                   config_file, chamada>>

SelecionarDestino(i) ==
    /\ fase = "aberta"
    /\ combo_destino' = i
    /\ ultima' = Entrada
    /\ UNCHANGED <<fase, combo_origem, input_valor, lbl_resultado, lbl_data_cotacao,
                   config_file, chamada>>

Digitar(t) ==
    /\ fase = "aberta"
    /\ input_valor' = t
    /\ ultima' = Entrada
    /\ UNCHANGED <<fase, combo_origem, combo_destino, lbl_resultado, lbl_data_cotacao,
                   config_file, chamada>>

\* the answers the service may give to the inverse request: it has an answer
\* only if it is made, that is if the direct attempt raised
RespostasInversas(origem, destino, r1) ==
    IF Tentativa(r1, origem \o destino, FALSE).fim = "excecao"
    THEN Respostas(destino, origem)
    ELSE {r1}

\* the effect of one run of the handler on the window
Efeito(o, d, c) ==
    /\ lbl_resultado' = c.lbl_resultado
    /\ lbl_data_cotacao' = c.lbl_data_cotacao
    /\ ultima' = [op |-> "converter_moeda", origem |-> o, destino |-> d,
                  texto |-> input_valor, exibiu |-> c.exibiu,
                  dialogos |-> c.dialogos, escapou |-> c.escapou,
                  pedidos |-> c.pedidos, cotacao |-> c.cotacao]

\* the answers the service may give to the direct request: it has an answer
\* only if it is made, that is if the validation lets the amount through
RespostasDiretas(o, d, texto) ==
    IF Valida(o, d, Replace(texto, ",", ".")).fim = "segue"
    THEN Respostas(o, d)
    ELSE {[tipo |-> "nenhuma", status |-> 0,
           corpo |-> [t |-> "nao_json", chave |-> "", entrada |-> SemEntrada]]}

ConverterCom(o, d) ==
    \E r1 \in RespostasDiretas(o, d, input_valor) :
    \E r2 \in RespostasInversas(o, d, r1) :
        Efeito(o, d, ConverterMoeda(o, d, input_valor, lbl_resultado, lbl_data_cotacao, r1, r2))

\* a click on CONVERTER: the handler converter_moeda, with the answers of the
\* service to the requests it makes
Converter ==
    /\ fase = "aberta"
    /\ ConverterCom(CurrentText(combo_origem), CurrentText(combo_destino))
    /\ UNCHANGED <<fase, combo_origem, combo_destino, input_valor, config_file, chamada>>

\* one session of the window: selections, typing and conversions
Next ==
    \/ \E i \in Indices : SelecionarOrigem(i)
    \/ \E i \in Indices : SelecionarDestino(i)
    \/ \E t \in ValoresDigitados : Digitar(t)
    \/ Converter

Spec == Init /\ [][Next]_vars

\* the window is closed: closeEvent runs, then app.exec() returns and the
\* process ends
Fechar(escrita) ==
    /\ fase = "aberta"
    /\ fase' = "fechada"
    /\ config_file' = CloseEvent(config_file, combo_origem, combo_destino, escrita)
    /\ ultima' = [op |-> "closeEvent", gravou |-> escrita = "ok",
                  origem |-> CurrentText(combo_origem),
                  destino |-> CurrentText(combo_destino)]
    /\ UNCHANGED <<widgets, chamada>>

\* config.json is changed from outside while the application is not running
EditarArquivo(f) ==
    /\ fase = "fechada"
    /\ config_file' = f
    /\ ultima' = [op |-> "externo"]
    /\ UNCHANGED <<fase, widgets, chamada>>

\* the application is started again: __init__ runs _setup_ui, then
\* carregar_config
Iniciar ==
    /\ fase = "fechada"
    /\ LET c == CarregarConfig(config_file, 0, 0)
       IN  /\ fase' = "aberta"
           /\ combo_origem' = c.combo_origem
           /\ combo_destino' = c.combo_destino
           /\ input_valor' = <<>>
           /\ lbl_resultado' = ResultadoInicial
           /\ lbl_data_cotacao' = RodapeInicial
           /\ ultima' = [op |-> "__init__", log |-> c.log,
                         fechamento |-> IF ultima.op = "closeEvent" THEN ultima
                                        ELSE [gravou |-> FALSE]]
    /\ UNCHANGED <<config_file, chamada>>

\* the runs of the application one after the other, around config.json
NextConfig ==
    \/ \E i \in Indices : SelecionarOrigem(i)
    \/ \E i \in Indices : SelecionarDestino(i)
    \/ \E e \in Escritas : Fechar(e)
    \/ \E f \in ArquivosExternos : EditarArquivo(f)
    \/ Iniciar

SpecConfig == Init /\ [][NextConfig]_vars

\* _obter_cotacao on its own: a pair, the answer of the service to the direct
\* request and the answer it would give to the inverse request
InitCotacao ==
    /\ fase = "aberta"
    /\ Widgets0
    /\ config_file = Ausente
    /\ ultima = Entrada
    /\ \E i \in Indices : \E j \in Indices \ {i} :
         LET o == moedas[i + 1]
             d == moedas[j + 1]
         IN  \E r1 \in Respostas(o, d) : \E r2 \in Respostas(d, o) :
               chamada = [feita |-> FALSE, origem |-> o, destino |-> d,
                          r1 |-> r1, r2 |-> r2, q |-> NaoEncontrado(<<>>)]

Chamar ==
    /\ ~chamada.feita
    /\ chamada' = [chamada EXCEPT !.feita = TRUE,
                     !.q = ObterCotacao(chamada.origem, chamada.destino, chamada.r1, chamada.r2)]
    /\ UNCHANGED <<fase, widgets, config_file, ultima>>

NextCotacao == Chamar

SpecCotacao == InitCotacao /\ [][NextCotacao]_vars

(***************************************************************************)
(* Properties of _obter_cotacao (checked under SpecCotacao)                *)
(***************************************************************************)
\* a 2xx answer whose body is an object holding the key, with a parsable bid
\* and a create_date
BemFormada(r, chave) ==
    /\ r.tipo = "http" /\ r.status = 200
    /\ r.corpo.t = "objeto" /\ r.corpo.chave = chave
    /\ r.corpo.entrada.t = "obj"
    /\ r.corpo.entrada.temBid /\ ParseFloat(r.corpo.entrada.bid).ok
    /\ r.corpo.entrada.temData

BidDe(r) == ParseFloat(r.corpo.entrada.bid).v

\* an answer that holds no entry under the key: no answer at all, a status
\* that is not 2xx, a body that is not JSON, or a body without the key
SemAChave(r, chave) ==
    \/ r.tipo # "http"
    \/ r.status # 200
    \/ r.corpo.t # "objeto"
    \/ r.corpo.chave # chave

DiretaDe(c) == c.origem \o c.destino

InversaDe(c) == c.destino \o c.origem

\* C1: when the direct answer is well formed and holds the direct key, the
\* resolver returns its bid as parsed (not reciprocated), its create_date and
\* the direct key, after the direct request alone.
C1_DiretaSemAlteracao ==
    (chamada.feita /\ BemFormada(chamada.r1, DiretaDe(chamada)))
    => /\ chamada.q.fim = "retorno"
       /\ chamada.q.cotacao = BidDe(chamada.r1)
       /\ chamada.q.data = DataApi
       /\ chamada.q.par = DiretaDe(chamada)
       /\ chamada.q.pedidos = <<API_URL_TEMPLATE(chamada.origem, chamada.destino)>>

C1_Witness ==
    /\ chamada.feita
    /\ BemFormada(chamada.r1, DiretaDe(chamada))
    /\ chamada.r1.corpo.entrada.bid = Txt02
    /\ chamada.q.cotacao = Fin(1, 5)
    /\ BemFormada(chamada.r2, InversaDe(chamada))

\* C2: whenever the direct attempt yields no rate, a failed request or an
\* answer without the direct key alike, and the inverse request would be
\* answered with a well-formed entry of non-zero bid, the resolver makes the
\* inverse request and returns 1/bid with the inverse key.
C2_InversaSempreTentada ==
    (chamada.feita
     /\ SemAChave(chamada.r1, DiretaDe(chamada))
     /\ BemFormada(chamada.r2, InversaDe(chamada)) /\ ~EhZero(BidDe(chamada.r2)))
    => /\ chamada.q.fim = "retorno"
       /\ chamada.q.cotacao = Recip(BidDe(chamada.r2))
       /\ chamada.q.par = InversaDe(chamada)
       /\ chamada.q.pedidos = <<API_URL_TEMPLATE(chamada.origem, chamada.destino),
                                API_URL_TEMPLATE(chamada.destino, chamada.origem)>>

\* C3: when neither answer is resolvable (no well-formed entry under the
\* direct key, and under the inverse key none with a non-zero bid), the
\* resolver raises the ValueError and nothing else, and returns no rate.
C3_NaoEncontrado ==
    (chamada.feita
     /\ ~BemFormada(chamada.r1, DiretaDe(chamada))
     /\ ~(BemFormada(chamada.r2, InversaDe(chamada)) /\ ~EhZero(BidDe(chamada.r2))))
    => /\ chamada.q.fim = "excecao"
       /\ chamada.q.exc = "ValueError"

\* both requests made, the inverse one answered with a bid of zero
C3_Witness ==
    /\ chamada.feita
    /\ chamada.r1.tipo = "ConnectionError"
    /\ BemFormada(chamada.r2, InversaDe(chamada)) /\ EhZero(BidDe(chamada.r2))
    /\ Len(chamada.q.pedidos) = 2
    /\ chamada.q.fim = "excecao"

(***************************************************************************)
(* Properties of converter_moeda (checked under Spec)                      *)
(***************************************************************************)
Convertido == ultima.op = "converter_moeda"

\* the amount the handler parsed from the text it read
ValorLido(u) == ParseFloat(Replace(u.texto, ",", "."))

\* C4: with the same currency on both sides, whatever the amount text, the
\* handler shows the same-currency warning and nothing else, and makes no
\* request.
C4_MoedasIguais ==
    (Convertido /\ ultima.origem = ultima.destino)
    => /\ ultima.dialogos = <<Aviso("moedas iguais")>>
       /\ ultima.pedidos = <<>>
       /\ ~ultima.exibiu
       /\ ultima.escapou = "nenhuma"

C4_Witness ==
    /\ Convertido /\ ultima.origem = ultima.destino
    /\ ultima.texto = Txt("a", "b", "c")
    /\ ultima.dialogos = <<Aviso("moedas iguais")>>

\* C5: a request is made only if the amount text parsed to a number strictly
\* greater than zero.
C5_PedidoSoComValorPositivo ==
    (Convertido /\ ultima.pedidos # <<>>)
    => /\ ValorLido(ultima).ok
       /\ ValorLido(ultima).v.k # "nan"
       /\ ValorLido(ultima).v.n > 0

\* a text that is no positive, finite number: empty, unparsable, zero,
\* negative, NaN or infinite
ValorInvalido(u) ==
    \/ ~ValorLido(u).ok
    \/ ValorLido(u).v.k # "fin"
    \/ ValorLido(u).v.n <= 0

\* C6: with two different currencies selected, every amount that is not a
\* positive, finite number is rejected with a warning (not the critical
\* dialog of a failed quote), and no result is displayed for it.
C6_ValorInvalidoAvisado ==
    (Convertido /\ ultima.origem # ultima.destino /\ ValorInvalido(ultima))
    => /\ ~ultima.exibiu
       /\ Len(ultima.dialogos) = 1
       /\ ultima.dialogos[1].nivel = "warning"

\* C7: the handler always returns normally, having either displayed the
\* result or shown exactly one dialog.
C7_UmDesfecho ==
    Convertido
    => /\ ultima.escapou = "nenhuma"
       /\ Len(ultima.dialogos) + (IF ultima.exibiu THEN 1 ELSE 0) = 1

\* the quote resolver raised after both requests, and the handler caught it
C7_Witness ==
    /\ Convertido
    /\ Len(ultima.pedidos) = 2
    /\ ~ultima.exibiu
    /\ ultima.dialogos = <<Critico("Erro de API")>>

EhDigitoEm(s, i) == i \in 1..Len(s) /\ EhDigito(s[i])

\* digits in groups of three separated by ".", then "," and two digits
FormatoBR(s) ==
    LET n == Len(s)
        m == IF n > 0 /\ s[1] = "-" THEN 2 ELSE 1
    IN  /\ n - m >= 3
        /\ s[n - 2] = ","
        /\ EhDigitoEm(s, n - 1) /\ EhDigitoEm(s, n)
        /\ EhDigitoEm(s, m)
        /\ \A i \in m..(n - 3) :
              IF (n - 2 - i) % 4 = 0 /\ i > m THEN s[i] = "." ELSE EhDigito(s[i])

\* the digits of a text, without its separators
SoDigitos(s) == SelectSeq(s, EhDigito)

\* C9: after every successful conversion the result label is amount * rate
\* with two fractional digits, "," as the decimal separator and "." between
\* groups of three integer digits.
C9_ResultadoFormatado ==
    (Convertido /\ ultima.exibiu)
    => /\ FormatoBR(lbl_resultado)
       /\ ValorInteiro(SoDigitos(lbl_resultado))
            = Centavos(Mul(ValorLido(ultima).v, ultima.cotacao))

Falhou(u) == u.op = "converter_moeda" /\ ~u.exibiu

RotulosMudam ==
    lbl_resultado' # lbl_resultado \/ lbl_data_cotacao' # lbl_data_cotacao

\* after a successful conversion both labels hold its output
RotulosDoSucesso ==
    (Convertido /\ ultima.exibiu)
    => /\ lbl_resultado = InverteSeparadores(FormatMilhar2f(
                             Mul(ValorLido(ultima).v, ultima.cotacao)))
       /\ lbl_data_cotacao.data = DataApi
       /\ lbl_data_cotacao.par \in {ultima.origem \o ultima.destino,
                                    ultima.destino \o ultima.origem}

\* C10: a conversion that ends in a dialog leaves both labels as they were;
\* the labels change only in a successful conversion, which sets both to its
\* own output; no conversion changes the selections.
C10_SoSucessoAlteraRotulos ==
    /\ []RotulosDoSucesso
    /\ [][/\ Falhou(ultima') => UNCHANGED <<lbl_resultado, lbl_data_cotacao>>
          /\ ultima'.op = "converter_moeda" => UNCHANGED <<combo_origem, combo_destino>>
          /\ RotulosMudam => ultima'.op = "converter_moeda" /\ ultima'.exibiu
         ]_vars

\* a failed conversion after a successful one: the labels still show the
\* earlier result
C10_Witness ==
    /\ Falhou(ultima)
    /\ ultima.dialogos = <<Critico("Erro de API")>>
    /\ lbl_resultado = <<"5", "0", "0", ",", "0", "0">>
    /\ lbl_data_cotacao = Rodape("USDBRL", DataApi)

(***************************************************************************)
(* Properties of the persisted pair (checked under SpecConfig)             *)
(***************************************************************************)
\* config.json holds no JSON document, or one that is no object
Malformado(arquivo) ==
    arquivo.existe /\ (~JsonLoad(arquivo.tokens).ok \/ JsonLoad(arquivo.tokens).t # "objeto")

====
